---- MODULE Spec2Model ----
(***************************************************************************)
(* Model of the keyring program: the nested TLV codec of keystore entries  *)
(* (program/src/tlv.rs), the keystore account mutations                    *)
(* (program/src/state.rs), the instruction processor                      *)
(* (program/src/processor.rs, program/src/instruction.rs) and the add_entry *)
(* calls of the client (client/src/keyring.rs).                            *)
(*                                                                         *)
(* Buffers are sequences of bytes (0..255).  Discriminators keep their 8   *)
(* bytes and length fields their 4 little-endian bytes.  A Rust function   *)
(* returning Result<T, ProgramError> becomes an operator returning a       *)
(* result record: Ok(value, consumed), Err(error) or Panic (an index or    *)
(* slice out of range aborts the program).  Option<T> is a sequence of     *)
(* length 0 (None) or 1 (Some).                                            *)
(***************************************************************************)
EXTENDS Integers, Sequences, FiniteSets, TLC

VARIABLES
    stage,      \* codec run: "input", "packed" or "unpacked"
    subject,    \* codec run: the value the codec functions are applied to
    packed,     \* codec run: the bytes produced by pack (or the raw buffer)
    unpacked,   \* codec run: the result of unpack
    data,       \* the keystore account's data (AccountInfo.data), the slot
    registry,   \* history: the records accepted and not removed, in order
    accounts,   \* processor: the program's accounts, by address
    last,       \* the last operation, its input, its result and the
                \* data (or accounts) it started from
    clients     \* client: each add_entry call's position, entry, fetched
                \* keystore and result

vars ==
    <<stage, subject, packed, unpacked, data, registry, accounts, last,
      clients>>

----------------------------------------------------------------------------
(* Bounds of the model *)

MaxKeyLen == 2
MaxValueLen == 1
MaxConfigEntries == 2
MaxEntries == 3

----------------------------------------------------------------------------
(* Results and slices *)

Ok(v, n) == [tag |-> "Ok", val |-> v, end |-> n, err |-> ""]
Err(e) == [tag |-> "Err", val |-> <<>>, end |-> 0, err |-> e]
Panic == [tag |-> "Panic", val |-> <<>>, end |-> 0, err |-> ""]

None == <<>>
Some(x) == <<x>>

\* let x = v; F(x): v is evaluated once and F applied to its value
Let(v, F(_)) == CHOOSE y \in {F(x) : x \in {v}} : TRUE

\* data[a..b] of Rust, for 0 <= a <= b <= data.len()
Slice(d, a, b) == SubSeq(d, a + 1, b)

\* data[a..] of Rust, for a <= data.len()
SliceFrom(d, a) == SubSeq(d, a + 1, Len(d))

\* u32::to_le_bytes
to_le_bytes(n) ==
    << n % 256, (n \div 256) % 256, (n \div 65536) % 256,
       (n \div 16777216) % 256 >>

\* u32::from_le_bytes; 2^30 stands for every length of 2^30 or more, which
\* exceeds the length of every buffer
from_le_bytes(b) ==
    IF b[4] >= 64 THEN 1073741824
    ELSE b[1] + 256 * b[2] + 65536 * b[3] + 16777216 * b[4]

----------------------------------------------------------------------------
(* Discriminators *)

\* KeystoreEntry::SPL_DISCRIMINATOR: the first 8 bytes of the SHA-256 hash
\* of "spl_keyring_program:keystore_entry"
ENTRY_DISCRIMINATOR == <<22, 52, 242, 31, 193, 53, 26, 243>>

\* KeystoreEntryConfig::SPL_DISCRIMINATOR: the first 8 bytes of the SHA-256
\* hash of "spl_keyring_program:keystore_entry:configuration"
CONFIG_DISCRIMINATOR == <<152, 237, 14, 242, 40, 241, 192, 210>>

CURVE_25519_KEY_DISCRIMINATOR == <<2, 2, 2, 2, 2, 2, 2, 2>>

RSA_KEY_DISCRIMINATOR == <<3, 3, 3, 3, 3, 3, 3, 3>>

\* b"nonce" padded with zeros to 8 bytes
nonce_discriminator == <<110, 111, 110, 99, 101, 0, 0, 0>>

\* b"aad" padded with zeros to 8 bytes
aad_discriminator == <<97, 97, 100, 0, 0, 0, 0, 0>>

----------------------------------------------------------------------------
(* KeystoreEntryConfigEntry *)

ConfigEntry_data_len(e) == 12 + e.value_length

ConfigEntry_pack(e) == e.key \o to_le_bytes(e.value_length) \o e.value

ConfigEntry_unpack(d) ==
    IF Len(d) < 12 THEN Err("InvalidFormatForConfigEntry")
    ELSE Let(from_le_bytes(Slice(d, 8, 12)), LAMBDA value_length :
         LET config_entry_end == value_length + 12
         IN  IF config_entry_end > Len(d) THEN Panic
             ELSE Ok([key |-> Slice(d, 0, 8),
                      value_length |-> value_length,
                      value |-> Slice(d, 12, config_entry_end)],
                     config_entry_end))

RECURSIVE ConfigEntry_unpack_to_vec(_)
ConfigEntry_unpack_to_vec(d) ==
    IF d = <<>> THEN Ok(<<>>, 0)
    ELSE Let(ConfigEntry_unpack(d), LAMBDA r :
         IF r.tag # "Ok" THEN r
         ELSE Let(ConfigEntry_unpack_to_vec(SliceFrom(d, r.end)), LAMBDA rest :
              IF rest.tag # "Ok" THEN rest
              ELSE Ok(<<r.val>> \o rest.val, Len(d))))

----------------------------------------------------------------------------
(* KeystoreEntryConfig: the vector of its entries *)

RECURSIVE Config_data_len_from(_, _)
Config_data_len_from(c, len) ==
    IF c = <<>> THEN len
    ELSE Config_data_len_from(Tail(c), len + ConfigEntry_data_len(Head(c)))

Config_data_len(c) == Config_data_len_from(c, 12)

RECURSIVE Config_pack(_)
Config_pack(c) ==
    IF c = <<>> THEN <<>>
    ELSE ConfigEntry_pack(Head(c)) \o Config_pack(Tail(c))

Config_unpack(d) ==
    IF Len(d) = 0 THEN Panic
    ELSE IF d[1] = 0 THEN Ok(None, 1)
    ELSE IF Len(d) < 12 THEN Err("InvalidFormatForConfig")
    ELSE IF Slice(d, 0, 8) # CONFIG_DISCRIMINATOR
         THEN Err("InvalidFormatForConfig")
    ELSE LET config_end == from_le_bytes(Slice(d, 8, 12)) + 12
         IN  IF config_end # Len(d) THEN Err("InvalidFormatForConfig")
             ELSE Let(ConfigEntry_unpack_to_vec(SliceFrom(d, 12)), LAMBDA v :
                  IF v.tag # "Ok" THEN v
                  ELSE Ok(Some(v.val), Len(d)))

----------------------------------------------------------------------------
(* KeystoreEntryKey *)

Key_data_len(k) == 12 + Len(k.key)

Key_pack(k) == k.discriminator \o to_le_bytes(k.key_length) \o k.key

Key_unpack(d) ==
    IF Len(d) < 12 THEN Err("InvalidFormatForKey")
    ELSE Let(from_le_bytes(Slice(d, 8, 12)), LAMBDA key_length :
         LET key_end == key_length + 12
         IN  IF key_end > Len(d) THEN Panic
             ELSE Ok([discriminator |-> Slice(d, 0, 8),
                      key_length |-> key_length,
                      key |-> Slice(d, 12, key_end)],
                     key_end))

----------------------------------------------------------------------------
(* KeystoreEntry *)

KeystoreEntry_pack(e) ==
    LET key_end == 12 + e.key.key_length
    IN  IF e.config # None
        THEN LET entry_length == key_end + Config_data_len(e.config[1])
             IN  ENTRY_DISCRIMINATOR \o to_le_bytes(entry_length)
                     \o Key_pack(e.key) \o Config_pack(e.config[1])
        ELSE LET entry_length == key_end + 1
             IN  ENTRY_DISCRIMINATOR \o to_le_bytes(entry_length)
                     \o Key_pack(e.key) \o <<0>>

\* KeystoreEntry::unpack reporting the entry length as the bytes consumed,
\* without the 12 bytes of the entry header
KeystoreEntry_unpack_length(d) ==
    IF Len(d) < 12 THEN Err("InvalidFormatForEntry")
    ELSE IF Slice(d, 0, 8) # ENTRY_DISCRIMINATOR
         THEN Err("InvalidFormatForEntry")
    ELSE LET entry_length == from_le_bytes(Slice(d, 8, 12))
         IN  Let(Key_unpack(SliceFrom(d, 12)), LAMBDA k :
             IF k.tag # "Ok" THEN k
             ELSE LET key_end == k.end + 12
                  IN  Let(Config_unpack(SliceFrom(d, key_end)), LAMBDA c :
                      IF c.tag # "Ok" THEN c
                      ELSE Ok([key |-> k.val, config |-> c.val],
                              entry_length)))

KeystoreEntry_unpack(d) ==
    IF Len(d) < 12 THEN Err("InvalidFormatForEntry")
    ELSE IF Slice(d, 0, 8) # ENTRY_DISCRIMINATOR
         THEN Err("InvalidFormatForEntry")
    ELSE LET entry_length == from_le_bytes(Slice(d, 8, 12))
             entry_end == entry_length + 12
         IN  Let(Key_unpack(SliceFrom(d, 12)), LAMBDA k :
             IF k.tag # "Ok" THEN k
             ELSE LET key_end == k.end + 12
                  IN  Let(Config_unpack(SliceFrom(d, key_end)), LAMBDA c :
                      IF c.tag # "Ok" THEN c
                      ELSE Ok([key |-> k.val, config |-> c.val], entry_end)))

----------------------------------------------------------------------------
(* Keystore *)

RECURSIVE Entries_pack(_)
Entries_pack(es) ==
    IF es = <<>> THEN <<>>
    ELSE KeystoreEntry_pack(Head(es)) \o Entries_pack(Tail(es))

\* pack with the number of entries written before them
Keystore_pack_with_length(k) ==
    to_le_bytes(Len(k.entries)) \o Entries_pack(k.entries)

\* Keystore::pack
Keystore_pack(k) == Entries_pack(k.entries)

RECURSIVE Keystore_unpack(_)
Keystore_unpack(d) ==
    IF d = <<>> THEN Ok([entries |-> <<>>], 0)
    ELSE Let(KeystoreEntry_unpack(d), LAMBDA r :
         IF r.tag # "Ok" THEN r
         ELSE IF r.end > Len(d) THEN Panic
         ELSE Let(Keystore_unpack(SliceFrom(d, r.end)), LAMBDA rest :
              IF rest.tag # "Ok" THEN rest
              ELSE Ok([entries |-> <<r.val>> \o rest.val.entries], Len(d))))

\* realloc_and_serialize that never shrinks the account: shorter data is
\* followed by zeros up to the old length
realloc_and_serialize_no_shrink(account_data, new_data, realloc_ok) ==
    IF ~realloc_ok
    THEN [result |-> Err("InvalidRealloc"), data |-> account_data]
    ELSE IF Len(new_data) < Len(account_data)
    THEN [result |-> Ok(<<>>, 0),
          data |-> new_data
                       \o [i \in 1..(Len(account_data) - Len(new_data))
                                 |-> 0]]
    ELSE [result |-> Ok(<<>>, 0), data |-> new_data]

\* realloc_and_serialize: the runtime may refuse the resize (realloc_ok
\* is FALSE); otherwise the account holds exactly the new data.
realloc_and_serialize(account_data, new_data, realloc_ok) ==
    IF ~realloc_ok
    THEN [result |-> Err("InvalidRealloc"), data |-> account_data]
    ELSE [result |-> Ok(<<>>, 0), data |-> new_data]

\* add_entry writing, on an empty account, the new entry data up to the
\* entry length instead of the entry end
add_entry_truncating(account_data, new_entry_data, realloc_ok) ==
    Let(KeystoreEntry_unpack(new_entry_data), LAMBDA u :
    IF u.tag # "Ok" THEN [result |-> u, data |-> account_data]
    ELSE IF u.end # Len(new_entry_data)
    THEN [result |-> Err("InvalidFormatForEntry"), data |-> account_data]
    ELSE IF account_data = <<>>
    THEN realloc_and_serialize(account_data,
             Slice(new_entry_data, 0, u.end - 12), realloc_ok)
    ELSE Let(Keystore_unpack(account_data), LAMBDA k :
         IF k.tag # "Ok" THEN [result |-> k, data |-> account_data]
         ELSE realloc_and_serialize(account_data,
                  Keystore_pack([entries |-> Append(k.val.entries, u.val)]),
                  realloc_ok)))

\* add_entry writing the new entry data before the leftover-bytes check
add_entry_write_first(account_data, new_entry_data, realloc_ok) ==
    Let(KeystoreEntry_unpack(new_entry_data), LAMBDA u :
    IF u.tag # "Ok" THEN [result |-> u, data |-> account_data]
    ELSE IF u.end # Len(new_entry_data)
    THEN [result |-> Err("InvalidFormatForEntry"),
          data |-> account_data \o new_entry_data]
    ELSE IF account_data = <<>>
    THEN realloc_and_serialize(account_data, new_entry_data, realloc_ok)
    ELSE Let(Keystore_unpack(account_data), LAMBDA k :
         IF k.tag # "Ok" THEN [result |-> k, data |-> account_data]
         ELSE realloc_and_serialize(account_data,
                  Keystore_pack([entries |-> Append(k.val.entries, u.val)]),
                  realloc_ok)))

\* Keystore::add_entry on an account whose data is account_data
add_entry(account_data, new_entry_data, realloc_ok) ==
    Let(KeystoreEntry_unpack(new_entry_data), LAMBDA u :
    IF u.tag # "Ok" THEN [result |-> u, data |-> account_data]
    ELSE IF u.end # Len(new_entry_data)
    THEN [result |-> Err("InvalidFormatForEntry"), data |-> account_data]
    ELSE IF account_data = <<>>
    THEN realloc_and_serialize(account_data, new_entry_data, realloc_ok)
    ELSE Let(Keystore_unpack(account_data), LAMBDA k :
         IF k.tag # "Ok" THEN [result |-> k, data |-> account_data]
         ELSE realloc_and_serialize(account_data,
                  Keystore_pack([entries |-> Append(k.val.entries, u.val)]),
                  realloc_ok)))

\* retain comparing the keys only, not the configurations
RECURSIVE retain_by_key(_, _)
retain_by_key(es, remove_entry) ==
    IF es = <<>> THEN <<>>
    ELSE IF Head(es).key # remove_entry.key
    THEN <<Head(es)>> \o retain_by_key(Tail(es), remove_entry)
    ELSE retain_by_key(Tail(es), remove_entry)

\* Vec::retain(|entry| entry != &remove_entry)
RECURSIVE retain(_, _)
retain(es, remove_entry) ==
    IF es = <<>> THEN <<>>
    ELSE IF Head(es) # remove_entry
    THEN <<Head(es)>> \o retain(Tail(es), remove_entry)
    ELSE retain(Tail(es), remove_entry)

\* remove_entry without the test for an empty account
remove_entry_on_empty(account_data, remove_entry_data, realloc_ok) ==
    Let(KeystoreEntry_unpack(remove_entry_data), LAMBDA u :
    IF u.tag # "Ok" THEN [result |-> u, data |-> account_data]
    ELSE IF u.end # Len(remove_entry_data)
    THEN [result |-> Err("InvalidFormatForEntry"), data |-> account_data]
    ELSE Let(Keystore_unpack(account_data), LAMBDA k :
         IF k.tag # "Ok" THEN [result |-> k, data |-> account_data]
         ELSE realloc_and_serialize(account_data,
                  Keystore_pack([entries |-> retain(k.val.entries, u.val)]),
                  realloc_ok)))

\* Keystore::remove_entry on an account whose data is account_data
remove_entry(account_data, remove_entry_data, realloc_ok) ==
    Let(KeystoreEntry_unpack(remove_entry_data), LAMBDA u :
    IF u.tag # "Ok" THEN [result |-> u, data |-> account_data]
    ELSE IF u.end # Len(remove_entry_data)
    THEN [result |-> Err("InvalidFormatForEntry"), data |-> account_data]
    ELSE IF account_data = <<>>
    THEN [result |-> Err("KeystoreEntryNotFound"), data |-> account_data]
    ELSE Let(Keystore_unpack(account_data), LAMBDA k :
         IF k.tag # "Ok" THEN [result |-> k, data |-> account_data]
         ELSE realloc_and_serialize(account_data,
                  Keystore_pack([entries |-> retain(k.val.entries, u.val)]),
                  realloc_ok)))

----------------------------------------------------------------------------
(* Inputs *)

SeqsUpTo(S, n) == UNION {[1..k -> S] : k \in 0..n}

Repeat(b, n) == [i \in 1..n |-> b]

\* Key and value bytes of the tests (vec![6; 32], vec![7; 32])
KeyBytes == {6, 7}
ValueBytes == {5}

Algorithms == {CURVE_25519_KEY_DISCRIMINATOR, RSA_KEY_DISCRIMINATOR}

ConfigKeys == {nonce_discriminator, aad_discriminator}

\* Valid keys: key_length is the length of the key
Keys ==
    {[discriminator |-> a, key_length |-> Len(p), key |-> p] :
        a \in Algorithms, p \in SeqsUpTo(KeyBytes, MaxKeyLen)}

ConfigEntries ==
    {[key |-> k, value_length |-> Len(v), value |-> v] :
        k \in ConfigKeys, v \in SeqsUpTo(ValueBytes, MaxValueLen)}

Configs == {None} \cup {Some(c) : c \in SeqsUpTo(ConfigEntries, MaxConfigEntries)}

\* Every valid KeystoreEntry within the bounds
Entries == {[key |-> k, config |-> c] : k \in Keys, c \in Configs}

\* The entries of the tests: a Curve25519 key and an RSA key without
\* configurations, and keys with an empty and a one-entry configuration
curve_25519_keystore_entry ==
    [key |-> [discriminator |-> CURVE_25519_KEY_DISCRIMINATOR,
              key_length |-> MaxKeyLen, key |-> Repeat(6, MaxKeyLen)],
     config |-> None]

rsa_keystore_entry ==
    [key |-> [discriminator |-> RSA_KEY_DISCRIMINATOR,
              key_length |-> MaxKeyLen, key |-> Repeat(7, MaxKeyLen)],
     config |-> None]

empty_config_keystore_entry ==
    [curve_25519_keystore_entry EXCEPT !.config = Some(<<>>)]

complex_keystore_entry ==
    [rsa_keystore_entry EXCEPT !.config =
        Some(<<[key |-> nonce_discriminator, value_length |-> MaxValueLen,
                value |-> Repeat(5, MaxValueLen)]>>)]

\* An RSA key of one byte, without configurations
short_key_keystore_entry ==
    [key |-> [discriminator |-> RSA_KEY_DISCRIMINATOR,
              key_length |-> 1, key |-> <<7>>],
     config |-> None]

TestEntries ==
    {curve_25519_keystore_entry, rsa_keystore_entry,
     empty_config_keystore_entry, complex_keystore_entry}

\* The entry layout documented on Keystore: the configurations section
\* carries its discriminator and total length
documented_entry_data(e) ==
    LET key_data == Key_pack(e.key)
        config_data ==
            IF e.config = None THEN <<0>>
            ELSE CONFIG_DISCRIMINATOR
                     \o to_le_bytes(Len(Config_pack(e.config[1])))
                     \o Config_pack(e.config[1])
    IN  ENTRY_DISCRIMINATOR
            \o to_le_bytes(Len(key_data) + Len(config_data))
            \o key_data \o config_data

\* An entry without configurations followed by one more byte that the
\* entry length counts
counted_trailing_byte_data ==
    LET body == SliceFrom(KeystoreEntry_pack(curve_25519_keystore_entry), 12)
    IN  ENTRY_DISCRIMINATOR \o to_le_bytes(Len(body) + 1) \o body \o <<9>>

\* Entry data a caller may submit: packed entries, entries in the
\* documented layout, an entry followed by one more byte (after the
\* sentinel, after a configurations section, or counted by the entry
\* length), an entry cut after its key, an entry under the wrong
\* discriminator
EntryInputs ==
    {KeystoreEntry_pack(e) : e \in TestEntries}
        \cup {documented_entry_data(e) : e \in TestEntries}
        \cup {KeystoreEntry_pack(short_key_keystore_entry),
              KeystoreEntry_pack(curve_25519_keystore_entry) \o <<0>>,
              documented_entry_data(complex_keystore_entry) \o <<0>>,
              counted_trailing_byte_data,
              Slice(KeystoreEntry_pack(curve_25519_keystore_entry), 0,
                    24 + MaxKeyLen),
              CONFIG_DISCRIMINATOR
                  \o SliceFrom(KeystoreEntry_pack(rsa_keystore_entry), 8)}

\* Keystores of at most MaxEntries test entries, duplicates allowed
Keystores == {[entries |-> es] : es \in SeqsUpTo(TestEntries, MaxEntries)}

\* d with the byte at offset i replaced by b
WithByte(d, i, b) == [d EXCEPT ![i + 1] = b]

\* Byte buffers handed to the decoders: well-formed entry and keystore
\* data, every prefix of it, and the same with the low byte of the entry
\* length (offset 8) or of the key length (offset 20) declaring 50 bytes,
\* or the entry length declaring 4 bytes
WellFormedBuffers ==
    {documented_entry_data(e) : e \in TestEntries}
        \cup {documented_entry_data(curve_25519_keystore_entry)
                  \o documented_entry_data(rsa_keystore_entry)}

Buffers ==
    LET prefixes == UNION {{Slice(b, 0, n) : n \in 0..Len(b)} :
                              b \in WellFormedBuffers}
    IN  prefixes
            \cup {WithByte(b, 8, 50) : b \in {p \in prefixes : Len(p) > 8}}
            \cup {WithByte(b, 20, 50) : b \in {p \in prefixes : Len(p) > 20}}
            \cup {WithByte(b, 8, 4) : b \in WellFormedBuffers}

----------------------------------------------------------------------------
(* Instructions *)

InstructionNames ==
    <<"InitializeAlgorithmStore", "AddAlgorithm", "RemoveAlgorithm",
      "CreateKeystore", "AddKey", "RemoveKey">>

\* KeyringProgramInstruction::pack
Instruction_pack(instruction) ==
    CASE instruction = "InitializeAlgorithmStore" -> <<0>>
      [] instruction = "AddAlgorithm" -> <<1>>
      [] instruction = "RemoveAlgorithm" -> <<2>>
      [] instruction = "CreateKeystore" -> <<3>>
      [] instruction = "AddKey" -> <<4>>
      [] instruction = "RemoveKey" -> <<5>>

\* KeyringProgramInstruction::unpack
Instruction_unpack(input) ==
    IF Len(input) = 0 THEN Panic
    ELSE CASE input[1] = 0 -> Ok("InitializeAlgorithmStore", 0)
           [] input[1] = 1 -> Ok("AddAlgorithm", 0)
           [] input[1] = 2 -> Ok("RemoveAlgorithm", 0)
           [] input[1] = 3 -> Ok("CreateKeystore", 0)
           [] input[1] = 4 -> Ok("AddKey", 0)
           [] input[1] = 5 -> Ok("RemoveKey", 0)
           [] OTHER -> Err("InvalidInstructionData")

\* Addresses: a wallet is named; a program-derived address is the
\* program and the seeds it is derived from
PROGRAM_ID == "spl_keyring_program"

Wallet(name) == [program |-> "", seeds |-> <<name>>]

Authorities == {Wallet("authority_1"), Wallet("authority_2")}

\* Keystore::seeds
Keystore_seeds(authority) == <<"keystore", authority.seeds[1]>>

\* Keystore::pda
Keystore_pda(program_id, authority) ==
    [program |-> program_id, seeds |-> Keystore_seeds(authority)]

\* check_pda accepting any address
Keystore_check_pda_any(program_id, authority, pda) ==
    Ok(<<>>, 0)

\* Keystore::check_pda
Keystore_check_pda(program_id, authority, pda) ==
    IF pda # Keystore_pda(program_id, authority) THEN Err("InvalidSeeds")
    ELSE Ok(<<>>, 0)

\* AlgorithmStore::seeds
AlgorithmStore_seeds == <<"algorithm_store">>

\* AlgorithmStore::pda
AlgorithmStore_pda(program_id) ==
    [program |-> program_id, seeds |-> AlgorithmStore_seeds]

\* AlgorithmStore::check_pda
AlgorithmStore_check_pda(program_id, pda) ==
    IF pda # AlgorithmStore_pda(program_id) THEN Err("InvalidSeeds")
    ELSE Ok(<<>>, 0)

\* AccountMeta::new(pubkey, is_signer) and AccountMeta::new_readonly
AccountMeta_new(pubkey, is_signer) ==
    [pubkey |-> pubkey, is_signer |-> is_signer, is_writable |-> TRUE]

AccountMeta_new_readonly(pubkey, is_signer) ==
    [pubkey |-> pubkey, is_signer |-> is_signer, is_writable |-> FALSE]

\* The instruction builders; _data is not used
initialize_algorithm_store(program_id, authority, _data) ==
    [program_id |-> program_id,
     accounts |-> <<AccountMeta_new(AlgorithmStore_pda(program_id), TRUE),
                    AccountMeta_new_readonly(authority, FALSE)>>,
     data |-> Instruction_pack("InitializeAlgorithmStore")]

add_algorithm(program_id, authority, _data) ==
    [program_id |-> program_id,
     accounts |-> <<AccountMeta_new(AlgorithmStore_pda(program_id), TRUE),
                    AccountMeta_new(authority, TRUE)>>,
     data |-> Instruction_pack("AddAlgorithm")]

remove_algorithm(program_id, authority, _data) ==
    [program_id |-> program_id,
     accounts |-> <<AccountMeta_new(AlgorithmStore_pda(program_id), TRUE),
                    AccountMeta_new(authority, TRUE)>>,
     data |-> Instruction_pack("RemoveAlgorithm")]

create_keystore(program_id, authority, _data) ==
    [program_id |-> program_id,
     accounts |-> <<AccountMeta_new(Keystore_pda(program_id, authority), TRUE),
                    AccountMeta_new(authority, TRUE)>>,
     data |-> Instruction_pack("CreateKeystore")]

add_key(program_id, authority, _data) ==
    [program_id |-> program_id,
     accounts |-> <<AccountMeta_new(Keystore_pda(program_id, authority), TRUE),
                    AccountMeta_new(authority, TRUE)>>,
     data |-> Instruction_pack("AddKey")]

remove_key(program_id, authority, _data) ==
    [program_id |-> program_id,
     accounts |-> <<AccountMeta_new(Keystore_pda(program_id, authority), TRUE),
                    AccountMeta_new(authority, TRUE)>>,
     data |-> Instruction_pack("AddKey")]

Builders ==
    {"initialize_algorithm_store", "add_algorithm", "remove_algorithm",
     "create_keystore", "add_key", "remove_key"}

Build(builder, program_id, authority, _data) ==
    CASE builder = "initialize_algorithm_store" ->
             initialize_algorithm_store(program_id, authority, _data)
      [] builder = "add_algorithm" ->
             add_algorithm(program_id, authority, _data)
      [] builder = "remove_algorithm" ->
             remove_algorithm(program_id, authority, _data)
      [] builder = "create_keystore" ->
             create_keystore(program_id, authority, _data)
      [] builder = "add_key" -> add_key(program_id, authority, _data)
      [] builder = "remove_key" -> remove_key(program_id, authority, _data)

----------------------------------------------------------------------------
(* Processor *)

\* The addresses the program derives
ProgramAddresses ==
    {Keystore_pda(PROGRAM_ID, a) : a \in Authorities}
        \cup {AlgorithmStore_pda(PROGRAM_ID)}

\* An account that was never created has no data
NoAccountData == [created |-> FALSE, data |-> <<>>]

Outcome(result, accts) == [result |-> result, accounts |-> accts]

\* check_authority without the is_signer test
check_authority_skipped(authority_info) ==
    Ok(<<>>, 0)

\* check_authority
check_authority(authority_info) ==
    IF ~authority_info.is_signer THEN Err("MissingRequiredSignature")
    ELSE Ok(<<>>, 0)

\* invoke_signed(system_instruction::create_account(..)): the system
\* program needs the funding account and the new account writable, and
\* refuses an address already in use; the new account is zero-filled
create_account(accts, from_info, to_info, space) ==
    IF ~from_info.is_writable \/ ~to_info.is_writable
    THEN Outcome(Err("PrivilegeEscalation"), accts)
    ELSE IF accts[to_info.pubkey].created
    THEN Outcome(Err("AccountAlreadyInUse"), accts)
    ELSE Outcome(Ok(<<>>, 0),
                 [accts EXCEPT ![to_info.pubkey] =
                     [created |-> TRUE, data |-> Repeat(0, space)]])

\* The size of the account the create instructions allocate ([0u8; 8])
KeystoreSpace == 8
AlgorithmStoreSpace == 8

process_initialize_algorithm_store(program_id, accts, infos) ==
    IF Len(infos) < 2 THEN Outcome(Err("NotEnoughAccountKeys"), accts)
    ELSE LET algorithm_store_info == infos[1]
             authority_info == infos[2]
         IN  IF check_authority(authority_info).tag # "Ok"
             THEN Outcome(check_authority(authority_info), accts)
             ELSE IF AlgorithmStore_check_pda(program_id,
                         algorithm_store_info.pubkey).tag # "Ok"
             THEN Outcome(AlgorithmStore_check_pda(program_id,
                              algorithm_store_info.pubkey), accts)
             ELSE create_account(accts, authority_info, algorithm_store_info,
                                 AlgorithmStoreSpace)

process_add_algorithm(program_id, accts, infos) ==
    IF Len(infos) < 2 THEN Outcome(Err("NotEnoughAccountKeys"), accts)
    ELSE LET algorithm_store_info == infos[1]
             authority_info == infos[2]
         IN  IF AlgorithmStore_check_pda(program_id,
                    algorithm_store_info.pubkey).tag # "Ok"
             THEN Outcome(AlgorithmStore_check_pda(program_id,
                              algorithm_store_info.pubkey), accts)
             ELSE Outcome(check_authority(authority_info), accts)

process_remove_algorithm(program_id, accts, infos) ==
    IF Len(infos) < 2 THEN Outcome(Err("NotEnoughAccountKeys"), accts)
    ELSE LET algorithm_store_info == infos[1]
             authority_info == infos[2]
         IN  IF AlgorithmStore_check_pda(program_id,
                    algorithm_store_info.pubkey).tag # "Ok"
             THEN Outcome(AlgorithmStore_check_pda(program_id,
                              algorithm_store_info.pubkey), accts)
             ELSE Outcome(check_authority(authority_info), accts)

process_create_keystore(program_id, accts, infos) ==
    IF Len(infos) < 2 THEN Outcome(Err("NotEnoughAccountKeys"), accts)
    ELSE LET keystore_info == infos[1]
             authority_info == infos[2]
         IN  IF check_authority(authority_info).tag # "Ok"
             THEN Outcome(check_authority(authority_info), accts)
             ELSE IF Keystore_check_pda(program_id, authority_info.pubkey,
                         keystore_info.pubkey).tag # "Ok"
             THEN Outcome(Keystore_check_pda(program_id,
                              authority_info.pubkey, keystore_info.pubkey),
                          accts)
             ELSE create_account(accts, authority_info, keystore_info,
                                 KeystoreSpace)

process_add_key(program_id, accts, infos) ==
    IF Len(infos) < 2 THEN Outcome(Err("NotEnoughAccountKeys"), accts)
    ELSE LET keystore_info == infos[1]
             authority_info == infos[2]
         IN  IF Keystore_check_pda(program_id, authority_info.pubkey,
                    keystore_info.pubkey).tag # "Ok"
             THEN Outcome(Keystore_check_pda(program_id,
                              authority_info.pubkey, keystore_info.pubkey),
                          accts)
             ELSE Outcome(check_authority(authority_info), accts)

process_remove_key(program_id, accts, infos) ==
    IF Len(infos) < 2 THEN Outcome(Err("NotEnoughAccountKeys"), accts)
    ELSE LET keystore_info == infos[1]
             authority_info == infos[2]
         IN  IF Keystore_check_pda(program_id, authority_info.pubkey,
                    keystore_info.pubkey).tag # "Ok"
             THEN Outcome(Keystore_check_pda(program_id,
                              authority_info.pubkey, keystore_info.pubkey),
                          accts)
             ELSE Outcome(check_authority(authority_info), accts)

\* process: infos are the AccountInfos of the instruction's accounts
process(program_id, accts, infos, input) ==
    LET instruction == Instruction_unpack(input)
    IN  IF instruction.tag # "Ok" THEN Outcome(instruction, accts)
        ELSE CASE instruction.val = "InitializeAlgorithmStore" ->
                      process_initialize_algorithm_store(program_id, accts,
                                                         infos)
               [] instruction.val = "AddAlgorithm" ->
                      process_add_algorithm(program_id, accts, infos)
               [] instruction.val = "RemoveAlgorithm" ->
                      process_remove_algorithm(program_id, accts, infos)
               [] instruction.val = "CreateKeystore" ->
                      process_create_keystore(program_id, accts, infos)
               [] instruction.val = "AddKey" ->
                      process_add_key(program_id, accts, infos)
               [] instruction.val = "RemoveKey" ->
                      process_remove_key(program_id, accts, infos)

----------------------------------------------------------------------------
(* Client (client/src/keystore.rs, client/src/keyring.rs) *)

\* The sizes of the key, nonce and associated-data arrays
CURVE_25519_KEY_SIZE == 32
RSA_KEY_SIZE == 64
COMPLEX_KEY_SIZE == 32
NONCE_SIZE == 12
AAD_SIZE == 12

\* EncryptionKeyConfig
Curve25519(key) == [variant |-> "Curve25519", key |-> key]
Rsa(key) == [variant |-> "Rsa", key |-> key]
ComplexAlgorithm(key, nonce, aad) ==
    [variant |-> "ComplexAlgorithm", key |-> key, nonce |-> nonce,
     aad |-> aad]

\* BorshSerialize of EncryptionKeyConfig: the variant index, then the
\* arrays of the variant
EncryptionKeyConfig_serialize(e) ==
    CASE e.variant = "Curve25519" -> <<0>> \o e.key
      [] e.variant = "Rsa" -> <<1>> \o e.key
      [] e.variant = "ComplexAlgorithm" -> <<2>> \o e.key \o e.nonce \o e.aad

\* BorshDeserialize of EncryptionKeyConfig from the start of d
EncryptionKeyConfig_deserialize(d) ==
    IF Len(d) < 1 THEN Err("UnexpectedLengthOfInput")
    ELSE IF d[1] = 0
    THEN IF Len(d) < 1 + CURVE_25519_KEY_SIZE
         THEN Err("UnexpectedLengthOfInput")
         ELSE Ok(Curve25519(Slice(d, 1, 1 + CURVE_25519_KEY_SIZE)),
                 1 + CURVE_25519_KEY_SIZE)
    ELSE IF d[1] = 1
    THEN IF Len(d) < 1 + RSA_KEY_SIZE THEN Err("UnexpectedLengthOfInput")
         ELSE Ok(Rsa(Slice(d, 1, 1 + RSA_KEY_SIZE)), 1 + RSA_KEY_SIZE)
    ELSE IF d[1] = 2
    THEN LET key_end == 1 + COMPLEX_KEY_SIZE
             nonce_end == key_end + NONCE_SIZE
             aad_end == nonce_end + AAD_SIZE
         IN  IF Len(d) < aad_end THEN Err("UnexpectedLengthOfInput")
             ELSE Ok(ComplexAlgorithm(Slice(d, 1, key_end),
                                      Slice(d, key_end, nonce_end),
                                      Slice(d, nonce_end, aad_end)),
                     aad_end)
    ELSE Err("InvalidVariantIndex")

\* Keystore(Vec<EncryptionKeyConfig>)::try_to_vec: the number of entries
\* in 4 little-endian bytes, then the entries
RECURSIVE ClientEntries_serialize(_)
ClientEntries_serialize(es) ==
    IF es = <<>> THEN <<>>
    ELSE EncryptionKeyConfig_serialize(Head(es))
             \o ClientEntries_serialize(Tail(es))

try_to_vec(keystore) ==
    to_le_bytes(Len(keystore)) \o ClientEntries_serialize(keystore)

\* n entries from the start of d, and the bytes they take
RECURSIVE ClientEntries_deserialize(_, _)
ClientEntries_deserialize(d, n) ==
    IF n = 0 THEN Ok(<<>>, 0)
    ELSE Let(EncryptionKeyConfig_deserialize(d), LAMBDA e :
         IF e.tag # "Ok" THEN e
         ELSE Let(ClientEntries_deserialize(SliceFrom(d, e.end), n - 1),
                  LAMBDA rest :
              IF rest.tag # "Ok" THEN rest
              ELSE Ok(<<e.val>> \o rest.val, e.end + rest.end)))

\* Keystore::try_from_slice: every byte of the slice must be read
try_from_slice(d) ==
    IF Len(d) < 4 THEN Err("UnexpectedLengthOfInput")
    ELSE Let(ClientEntries_deserialize(SliceFrom(d, 4),
                                       from_le_bytes(Slice(d, 0, 4))),
             LAMBDA es :
         IF es.tag # "Ok" THEN es
         ELSE IF 4 + es.end # Len(d) THEN Err("NotAllBytesRead")
         ELSE Ok(es.val, Len(d)))

\* Keyring::get_keystore on the data of the fetched account
get_keystore(account_data) ==
    IF account_data = <<>> THEN Ok(<<>>, 0)
    ELSE try_from_slice(account_data)

\* The program's update_keyring instruction: the account holds the
\* submitted data
update_keyring(account_data, submitted) == submitted

\* The entries of the client tests, and the calls that run concurrently
ClientEntries ==
    {Curve25519([i \in 1..CURVE_25519_KEY_SIZE |-> 6]),
     Rsa([i \in 1..RSA_KEY_SIZE |-> 7]),
     ComplexAlgorithm([i \in 1..COMPLEX_KEY_SIZE |-> 8],
                      [i \in 1..NONCE_SIZE |-> 1],
                      [i \in 1..AAD_SIZE |-> 2])}

Calls == {1, 2}

NoCall == [pc |-> "idle", entry |-> <<>>, keystore |-> <<>>,
           result |-> Ok(<<>>, 0)]

NoClients == [c \in Calls |-> NoCall]

----------------------------------------------------------------------------
(* The codec: pack and unpack applied to entries, keystores and buffers *)

NoOp == [op |-> "none", input |-> <<>>, result |-> Ok(<<>>, 0),
         before |-> <<>>]

NoCodec ==
    /\ stage = "idle"
    /\ subject = [kind |-> "none", value |-> <<>>]
    /\ packed = <<>>
    /\ unpacked = Ok(<<>>, 0)

NoAccount ==
    /\ data = <<>>
    /\ registry = <<>>
    /\ accounts = [a \in ProgramAddresses |-> NoAccountData]
    /\ last = NoOp
    /\ clients = NoClients

InitCodec ==
    /\ stage = "input"
    /\ \/ \E e \in Entries : subject = [kind |-> "entry", value |-> e]
       \/ \E k \in Keystores : subject = [kind |-> "keystore", value |-> k]
       \/ \E b \in Buffers : subject = [kind |-> "buffer", value |-> b]
    /\ packed = <<>>
    /\ unpacked = Ok(<<>>, 0)
    /\ NoAccount

PackEntry ==
    /\ stage = "input"
    /\ subject.kind = "entry"
    /\ packed' = KeystoreEntry_pack(subject.value)
    /\ stage' = "packed"
    /\ UNCHANGED <<subject, unpacked, data, registry, accounts, last,
                 clients>>

PackKeystore ==
    /\ stage = "input"
    /\ subject.kind = "keystore"
    /\ packed' = Keystore_pack(subject.value)
    /\ stage' = "packed"
    /\ UNCHANGED <<subject, unpacked, data, registry, accounts, last,
                 clients>>

ReceiveBuffer ==
    /\ stage = "input"
    /\ subject.kind = "buffer"
    /\ packed' = subject.value
    /\ stage' = "packed"
    /\ UNCHANGED <<subject, unpacked, data, registry, accounts, last,
                 clients>>

UnpackEntry ==
    /\ stage = "packed"
    /\ subject.kind \in {"entry", "buffer"}
    /\ unpacked' = KeystoreEntry_unpack(packed)
    /\ stage' = "entry_unpacked"
    /\ UNCHANGED <<subject, packed, data, registry, accounts, last,
                 clients>>

UnpackKeystore ==
    /\ stage = "packed"
    /\ subject.kind \in {"keystore", "buffer"}
    /\ unpacked' = Keystore_unpack(packed)
    /\ stage' = "keystore_unpacked"
    /\ UNCHANGED <<subject, packed, data, registry, accounts, last,
                 clients>>

NextCodec ==
    \/ PackEntry
    \/ PackKeystore
    \/ ReceiveBuffer
    \/ UnpackEntry
    \/ UnpackKeystore

SpecCodec == InitCodec /\ [][NextCodec]_vars

----------------------------------------------------------------------------
(* The keystore account under Keystore::add_entry / remove_entry *)

\* The number of entries the account data decodes to
EntryCount(d) ==
    Let(Keystore_unpack(d), LAMBDA k :
        IF k.tag = "Ok" THEN Len(k.val.entries) ELSE 0)

Init ==
    /\ NoCodec
    /\ NoAccount

AddEntry ==
    \E new_entry_data \in EntryInputs, realloc_ok \in BOOLEAN :
        /\ EntryCount(data) < MaxEntries
        /\ \E o \in {add_entry(data, new_entry_data, realloc_ok)} :
               /\ data' = o.data
               /\ last' = [op |-> "add_entry", input |-> new_entry_data,
                           result |-> o.result, before |-> data]
               /\ registry' =
                      IF o.result.tag = "Ok"
                      THEN Append(registry,
                               KeystoreEntry_unpack(new_entry_data).val)
                      ELSE registry
        /\ UNCHANGED <<stage, subject, packed, unpacked, accounts,
                 clients>>

RemoveEntry ==
    \E remove_entry_data \in EntryInputs, realloc_ok \in BOOLEAN :
        /\ \E o \in {remove_entry(data, remove_entry_data, realloc_ok)} :
               /\ data' = o.data
               /\ last' = [op |-> "remove_entry", input |-> remove_entry_data,
                           result |-> o.result, before |-> data]
               /\ registry' =
                      IF o.result.tag = "Ok"
                      THEN retain(registry,
                               KeystoreEntry_unpack(remove_entry_data).val)
                      ELSE registry
        /\ UNCHANGED <<stage, subject, packed, unpacked, accounts,
                 clients>>

Next ==
    \/ AddEntry
    \/ RemoveEntry

Spec == Init /\ [][Next]_vars

\* The account under Keystore::add_entry alone
NextAdd ==
    \/ AddEntry

SpecAdd == Init /\ [][NextAdd]_vars

----------------------------------------------------------------------------
(* The program under instructions *)

\* Instruction data a transaction may carry besides the packed
\* instructions: no data, and a tag no instruction has
RawInstructionData ==
    {Instruction_pack(InstructionNames[i]) : i \in 1..Len(InstructionNames)}
        \cup {<<>>, <<6>>}

InitProgram ==
    /\ NoCodec
    /\ NoAccount

\* An instruction built by one of the builders for an authority that
\* signs the transaction
SendBuilt ==
    \E builder \in Builders, authority \in Authorities,
       entry \in TestEntries :
        LET ix == Build(builder, PROGRAM_ID, authority,
                        KeystoreEntry_pack(entry))
            o == process(ix.program_id, accounts, ix.accounts, ix.data)
        IN  /\ accounts' = o.accounts
            /\ last' = [op |-> builder,
                        input |-> [authority |-> authority, entry |-> entry,
                                   instruction |-> ix],
                        result |-> o.result, before |-> accounts]
            /\ UNCHANGED <<stage, subject, packed, unpacked, data, registry,
                 clients>>

\* Any other instruction: any data, any program address as first account,
\* an authority that signed or not, or the authority account left out
SendRaw ==
    \E input \in RawInstructionData, address \in ProgramAddresses,
       authority \in Authorities, is_signer \in BOOLEAN,
       with_authority \in BOOLEAN :
        LET metas == IF with_authority
                     THEN <<AccountMeta_new(address, FALSE),
                            AccountMeta_new(authority, is_signer)>>
                     ELSE <<AccountMeta_new(address, FALSE)>>
            ix == [program_id |-> PROGRAM_ID, accounts |-> metas,
                   data |-> input]
            o == process(ix.program_id, accounts, ix.accounts, ix.data)
        IN  /\ accounts' = o.accounts
            /\ last' = [op |-> "raw",
                        input |-> [authority |-> authority, entry |-> <<>>,
                                   instruction |-> ix],
                        result |-> o.result, before |-> accounts]
            /\ UNCHANGED <<stage, subject, packed, unpacked, data, registry,
                 clients>>

NextProgram ==
    \/ SendBuilt
    \/ SendRaw

SpecProgram == InitProgram /\ [][NextProgram]_vars

----------------------------------------------------------------------------
(* Concurrent client add_entry calls on one keystore *)

\* The keystore account when the calls start: without data, as created
\* by the program, or holding a serialized keystore of at most one entry
InitialClientData ==
    {<<>>, [i \in 1..KeystoreSpace |-> 0], try_to_vec(<<>>)}
        \cup {try_to_vec(<<e>>) : e \in ClientEntries}

InitClient ==
    /\ NoCodec
    /\ registry = <<>>
    /\ accounts = [a \in ProgramAddresses |-> NoAccountData]
    /\ last = NoOp
    /\ clients = NoClients
    /\ data \in InitialClientData

\* add_entry up to the end of get_keystore: the account is fetched and
\* deserialized
ClientGetKeystore ==
    \E c \in Calls, entry \in ClientEntries :
        /\ clients[c].pc = "idle"
        /\ \E k \in {get_keystore(data)} :
               clients' = [clients EXCEPT ![c] =
                   IF k.tag = "Ok"
                   THEN [pc |-> "fetched", entry |-> entry,
                         keystore |-> k.val, result |-> Ok(<<>>, 0)]
                   ELSE [pc |-> "done", entry |-> entry,
                         keystore |-> <<>>, result |-> k]]
        /\ UNCHANGED <<stage, subject, packed, unpacked, data, registry,
                       accounts, last>>

\* The rest of add_entry: the entry is pushed, the keystore serialized and
\* the update_keyring transaction processed
ClientUpdateKeyring ==
    \E c \in Calls :
        /\ clients[c].pc = "fetched"
        /\ data' = update_keyring(data,
                       try_to_vec(Append(clients[c].keystore,
                                         clients[c].entry)))
        /\ clients' = [clients EXCEPT ![c].pc = "done"]
        /\ UNCHANGED <<stage, subject, packed, unpacked, registry, accounts,
                       last>>

NextClient ==
    \/ ClientGetKeystore
    \/ ClientUpdateKeyring

SpecClient == InitClient /\ [][NextClient]_vars

----------------------------------------------------------------------------
(* Properties *)

\* es without every entry equal to t, the others in their order
Without(es, t) ==
    LET keep == {i \in 1..Len(es) : es[i] # t}
    IN  [j \in 1..Cardinality(keep) |->
            es[CHOOSE i \in keep : Cardinality({k \in keep : k < i}) = j - 1]]

\* t occurs in the entries that account data d decodes to
OccursIn(t, d) ==
    LET k == Keystore_unpack(d)
    IN  k.tag = "Ok" /\ \E i \in 1..Len(k.val.entries) : k.val.entries[i] = t

\* C1: unpacking the packed form of a valid entry succeeds and returns an
\* entry equal to it, whether its configuration is absent, empty or not.
EntryRoundTrip ==
    (stage = "entry_unpacked" /\ subject.kind = "entry")
        => (unpacked.tag = "Ok" /\ unpacked.val = subject.value)

\* C2: unpacking the packed form of a keystore succeeds and returns the
\* same entries in the same order, also when an entry with a
\* configuration is followed by further entries.
KeystoreRoundTrip ==
    (stage = "keystore_unpacked" /\ subject.kind = "keystore")
        => (unpacked.tag = "Ok" /\ unpacked.val = subject.value)

\* C3: after any sequence of add_entry calls on an empty account, the
\* account data decodes to exactly the entries of the successful calls,
\* in the order they were added.
SequenceLawOfAdd ==
    LET k == Keystore_unpack(data)
    IN  k.tag = "Ok" /\ k.val.entries = registry

AddThenRemoveIdentity ==
    [][(/\ last.op = "add_entry"
        /\ last.result.tag = "Ok"
        /\ ~OccursIn(KeystoreEntry_unpack(last.input).val, last.before)
        /\ last'.op = "remove_entry"
        /\ last'.input = last.input
        /\ last'.before = data
        /\ last'.result.err # "InvalidRealloc")
           => (last'.result.tag = "Ok" /\ data' = last.before)]_vars

\* C6: after any sequence of add_entry and remove_entry calls on an empty
\* account, the account data is empty or decodes as a keystore.
BufferConsistency ==
    data = <<>> \/ Keystore_unpack(data).tag = "Ok"

\* C7: KeystoreEntry::unpack and Keystore::unpack return a value or an
\* error on every buffer; none makes them panic.
DecodeNeverCrashes ==
    stage \in {"entry_unpacked", "keystore_unpacked"}
        => unpacked.tag \in {"Ok", "Err"}

\* C8: when add_entry or remove_entry returns an error, the account data
\* is what it was before the call.
NoPartialWrites ==
    (last.op \in {"add_entry", "remove_entry"} /\ last.result.tag = "Err")
        => data = last.before

\* add_entry on an account that holds entries is refused for the bytes
\* left over after the new entry.
NoPartialWritesWitness ==
    /\ last.op = "add_entry"
    /\ last.result = Err("InvalidFormatForEntry")
    /\ last.before # <<>>
    /\ KeystoreEntry_unpack(last.input).tag = "Ok"
    /\ KeystoreEntry_unpack(last.input).end # Len(last.input)
    /\ data = last.before

\* C9: after an instruction built by add_key (remove_key) succeeds, the
\* keystore account decodes to the entries it held before with the
\* submitted entry appended (with every entry equal to it removed).
KeyInstructionAppliesMutation ==
    (last.op \in {"add_key", "remove_key"} /\ last.result.tag = "Ok")
        => LET pda == Keystore_pda(PROGRAM_ID, last.input.authority)
               before == Keystore_unpack(last.before[pda].data)
               after == Keystore_unpack(accounts[pda].data)
           IN  /\ after.tag = "Ok"
               /\ before.tag = "Ok"
                      => after.val.entries =
                             IF last.op = "add_key"
                             THEN Append(before.val.entries, last.input.entry)
                             ELSE Without(before.val.entries, last.input.entry)

\* C10: right after create_keystore succeeds the keystore account decodes
\* to no entries, and add_entry of a first entry succeeds and leaves an
\* account that decodes to that entry alone.
FreshKeystoreIsEmpty ==
    (last.op = "create_keystore" /\ last.result.tag = "Ok")
        => LET pda == Keystore_pda(PROGRAM_ID, last.input.authority)
               fresh == Keystore_unpack(accounts[pda].data)
               added == add_entry(accounts[pda].data,
                            KeystoreEntry_pack(curve_25519_keystore_entry),
                            TRUE)
           IN  /\ fresh.tag = "Ok"
               /\ fresh.val.entries = <<>>
               /\ added.result.tag = "Ok"
               /\ Keystore_unpack(added.data).tag = "Ok"
               /\ Keystore_unpack(added.data).val.entries
                      = <<curve_25519_keystore_entry>>

\* The instruction of the last request and the instruction it unpacks to
LastInstruction == last.input.instruction

ProgramRequest == last.op \in Builders \cup {"raw"}

\* C11: no instruction succeeds when the authority account is not a
\* signer; the request fails and no account changes.
AuthorityGate ==
    (/\ ProgramRequest
     /\ Len(LastInstruction.accounts) >= 2
     /\ ~LastInstruction.accounts[2].is_signer)
        => (last.result.tag # "Ok" /\ accounts = last.before)

\* An AddKey instruction naming the authority's own keystore address,
\* the authority not signing, is refused for the missing signature.
AuthorityGateWitness ==
    /\ last.op = "raw"
    /\ LastInstruction.data = Instruction_pack("AddKey")
    /\ Len(LastInstruction.accounts) = 2
    /\ LastInstruction.accounts[1].pubkey
           = Keystore_pda(PROGRAM_ID, LastInstruction.accounts[2].pubkey)
    /\ ~LastInstruction.accounts[2].is_signer
    /\ last.result = Err("MissingRequiredSignature")
    /\ accounts = last.before

\* C12: CreateKeystore, AddKey and RemoveKey succeed only on the keystore
\* address derived from the requesting authority; signed by one authority
\* and naming the address derived for another they fail with InvalidSeeds,
\* and a keystore account changes only under its own authority.
OwnerIsolation ==
    (ProgramRequest /\ Len(LastInstruction.accounts) >= 2)
        => LET keystore_info == LastInstruction.accounts[1]
               authority_info == LastInstruction.accounts[2]
               instruction == Instruction_unpack(LastInstruction.data)
               keyed == /\ instruction.tag = "Ok"
                        /\ instruction.val
                               \in {"CreateKeystore", "AddKey", "RemoveKey"}
           IN  /\ (keyed /\ last.result.tag = "Ok")
                      => keystore_info.pubkey
                             = Keystore_pda(PROGRAM_ID, authority_info.pubkey)
               /\ (/\ keyed
                   /\ authority_info.is_signer
                   /\ \E other \in Authorities \ {authority_info.pubkey} :
                          keystore_info.pubkey = Keystore_pda(PROGRAM_ID, other))
                      => (/\ last.result = Err("InvalidSeeds")
                          /\ accounts = last.before)
               /\ \A owner \in Authorities :
                      accounts[Keystore_pda(PROGRAM_ID, owner)]
                              # last.before[Keystore_pda(PROGRAM_ID, owner)]
                          => authority_info.pubkey = owner

\* A signing authority names the keystore another authority created, in a
\* CreateKeystore instruction: InvalidSeeds, the keystore as it was.
OwnerIsolationWitness ==
    /\ last.op = "raw"
    /\ LastInstruction.data = Instruction_pack("CreateKeystore")
    /\ Len(LastInstruction.accounts) = 2
    /\ LastInstruction.accounts[2].is_signer
    /\ LastInstruction.accounts[2].pubkey = Wallet("authority_1")
    /\ LastInstruction.accounts[1].pubkey
           = Keystore_pda(PROGRAM_ID, Wallet("authority_2"))
    /\ accounts[Keystore_pda(PROGRAM_ID, Wallet("authority_2"))].created
    /\ last.result = Err("InvalidSeeds")
    /\ accounts = last.before

\* d decodes as one entry that takes all of d
SingleEntry(d) ==
    LET u == KeystoreEntry_unpack(d)
    IN  u.tag = "Ok" /\ u.end = Len(d)

\* The entry d decodes to
Target(d) == KeystoreEntry_unpack(d).val

\* The offset in d at which its first record ends: after the entry
\* header, the key TLV and either the zero sentinel or the configurations
\* section with the length it declares; 0 when d ends before that
RecordEnd(d) ==
    IF Len(d) < 24 THEN 0
    ELSE LET key_end == 24 + from_le_bytes(Slice(d, 20, 24))
         IN  IF key_end >= Len(d) THEN 0
             ELSE IF d[key_end + 1] = 0 THEN key_end + 1
             ELSE IF Len(d) < key_end + 12 THEN 0
             ELSE key_end + 12
                      + from_le_bytes(Slice(d, key_end + 8, key_end + 12))

\* C13: after a successful add_entry the account is as long as it was
\* plus the length of the packed form of the decoded entry (from nothing
\* when the account was empty), for an input that is one record and no
\* more.
AddIncreasesLength ==
    (/\ last.op = "add_entry"
     /\ last.result.tag = "Ok"
     /\ RecordEnd(last.input) = Len(last.input))
        => Len(data) = Len(last.before)
                           + Len(KeystoreEntry_pack(Target(last.input)))

\* C14: remove_entry of a valid entry equal to none of the entries of a
\* non-empty account leaves the account data byte for byte.
RemoveAbsentPreservesBytes ==
    (/\ last.op = "remove_entry"
     /\ last.before # <<>>
     /\ SingleEntry(last.input)
     /\ ~OccursIn(Target(last.input), last.before))
        => data = last.before

\* C15: remove_entry of a well-formed entry equal to none of the entries
\* of a non-empty account that decodes succeeds (a resize the runtime
\* refuses apart), and the account decodes to the same entries as before.
NoMatchRemoveSucceeds ==
    (/\ last.op = "remove_entry"
     /\ last.before # <<>>
     /\ Keystore_unpack(last.before).tag = "Ok"
     /\ SingleEntry(last.input)
     /\ ~OccursIn(Target(last.input), last.before)
     /\ last.result.err # "InvalidRealloc")
        => (/\ last.result.tag = "Ok"
            /\ Keystore_unpack(data).tag = "Ok"
            /\ Keystore_unpack(data).val.entries
                   = Keystore_unpack(last.before).val.entries)

\* C16: remove_entry of any well-formed entry on an empty account fails
\* with KeystoreEntryNotFound and the account stays empty.
RemoveOnEmptySlot ==
    (/\ last.op = "remove_entry"
     /\ last.before = <<>>
     /\ SingleEntry(last.input))
        => (last.result = Err("KeystoreEntryNotFound") /\ data = <<>>)

\* An entry with a configuration, in the documented layout, is removed
\* from an empty account.
RemoveOnEmptySlotWitness ==
    /\ last.op = "remove_entry"
    /\ last.before = <<>>
    /\ last.input = documented_entry_data(complex_keystore_entry)
    /\ SingleEntry(last.input)
    /\ last.result = Err("KeystoreEntryNotFound")
    /\ data = <<>>

\* C17: add_entry and remove_entry reject with InvalidFormatForEntry any
\* input that has bytes left after its record, and leave the account data
\* as it was.
TrailingBytesRejected ==
    (/\ last.op \in {"add_entry", "remove_entry"}
     /\ RecordEnd(last.input) > 0
     /\ RecordEnd(last.input) < Len(last.input))
        => (last.result = Err("InvalidFormatForEntry") /\ data = last.before)

\* C18: add_entry and remove_entry succeed only on an input whose entry
\* length field is the number of bytes its key TLV and its configurations
\* section or sentinel take.
LengthFieldAgreement ==
    (last.op \in {"add_entry", "remove_entry"} /\ last.result.tag = "Ok")
        => from_le_bytes(Slice(last.input, 8, 12)) + 12
               = RecordEnd(last.input)

\* C19: the packed form of an entry without configurations has exactly one
\* zero byte after the key TLV, the packed form of an entry with a present,
\* empty configuration has the 12-byte section header (configurations
\* discriminator, length 0) there, and each unpacks to what was packed.
SentinelDistinction ==
    (/\ subject.kind = "entry"
     /\ stage \in {"packed", "entry_unpacked"}
     /\ subject.value.config \in {None, Some(<<>>)})
        => /\ SliceFrom(packed, 12 + Key_data_len(subject.value.key))
                  = IF subject.value.config = None THEN <<0>>
                    ELSE CONFIG_DISCRIMINATOR \o to_le_bytes(0)
           /\ stage = "entry_unpacked"
                  => (/\ unpacked.tag = "Ok"
                      /\ unpacked.val.config = subject.value.config)

\* The byte sequences of bs one after the other
RECURSIVE Concatenation(_)
Concatenation(bs) ==
    IF bs = <<>> THEN <<>> ELSE Head(bs) \o Concatenation(Tail(bs))

\* C20: the packed form of a keystore is the packed forms of its entries
\* one after the other, in order, with nothing before, between or after
\* them; the packed form of no entries is empty.
ConcatenationLaw ==
    (subject.kind = "keystore" /\ stage \in {"packed", "keystore_unpacked"})
        => LET es == subject.value.entries
           IN  /\ packed = Concatenation([i \in 1..Len(es) |->
                                              KeystoreEntry_pack(es[i])])
               /\ es = <<>> => packed = <<>>
               /\ \A n \in 0..Len(es) :
                      packed = Keystore_pack([entries |-> SubSeq(es, 1, n)])
                                   \o Keystore_pack([entries |->
                                          SubSeq(es, n + 1, Len(es))])

\* The keystore of the Curve25519 entry and the entry with a
\* configuration is packed: the first's bytes, then the second's.
ConcatenationLawWitness ==
    /\ subject.kind = "keystore"
    /\ stage = "packed"
    /\ subject.value.entries
           = <<curve_25519_keystore_entry, complex_keystore_entry>>
    /\ packed = KeystoreEntry_pack(curve_25519_keystore_entry)
                    \o KeystoreEntry_pack(complex_keystore_entry)

\* C21: in the packed form of every entry the length at offset 8 is the
\* number of bytes that follow it: the key TLV and the configurations
\* section or the sentinel.
RecordLengthField ==
    (subject.kind = "entry" /\ stage \in {"packed", "entry_unpacked"})
        => from_le_bytes(Slice(packed, 8, 12)) = Len(packed) - 12

\* C22: add_entry, on an empty account, of the packed form of an entry
\* without configurations whose key has n bytes leaves an account of
\* 8 + 4 + (8 + 4 + n) + 1 bytes that decodes to that entry alone.
NoConfigRecordSize ==
    (last.op = "add_entry" /\ last.before = <<>> /\ last.result.tag = "Ok")
        => \A k \in Keys :
               LET e == [key |-> k, config |-> None]
               IN  last.input = KeystoreEntry_pack(e)
                       => /\ Len(data) = 8 + 4 + (8 + 4 + Len(k.key)) + 1
                          /\ Keystore_unpack(data).tag = "Ok"
                          /\ Keystore_unpack(data).val.entries = <<e>>

\* The Curve25519 entry of the tests is added to the empty account.
NoConfigRecordSizeWitness ==
    /\ last.op = "add_entry"
    /\ last.before = <<>>
    /\ last.result.tag = "Ok"
    /\ last.input = KeystoreEntry_pack(curve_25519_keystore_entry)
    /\ Len(data) = 25 + MaxKeyLen
    /\ Keystore_unpack(data).val.entries = <<curve_25519_keystore_entry>>

\* C23: after a successful remove_entry the account is no longer than it
\* was, and exactly as long as the data that was written: the packed form
\* of the entries that were kept.
RemoveNeverGrows ==
    (last.op = "remove_entry" /\ last.result.tag = "Ok")
        => /\ Len(data) <= Len(last.before)
           /\ Len(data) =
                  Len(Keystore_pack([entries |->
                      Without(Keystore_unpack(last.before).val.entries,
                              Target(last.input))]))

\* An entry is removed from an account of two entries: the account is
\* shorter than it was and not empty.
RemoveNeverGrowsWitness ==
    /\ last.op = "remove_entry"
    /\ last.result.tag = "Ok"
    /\ Len(data) < Len(last.before)
    /\ data # <<>>
    /\ OccursIn(Target(last.input), last.before)

\* The instruction each builder is named and documented for
DocumentedInstruction(builder) ==
    CASE builder = "initialize_algorithm_store" -> "InitializeAlgorithmStore"
      [] builder = "add_algorithm" -> "AddAlgorithm"
      [] builder = "remove_algorithm" -> "RemoveAlgorithm"
      [] builder = "create_keystore" -> "CreateKeystore"
      [] builder = "add_key" -> "AddKey"
      [] builder = "remove_key" -> "RemoveKey"

\* C24: the data of the instruction each builder emits unpacks to the
\* instruction the builder is named for.
BuilderEmitsItsInstruction ==
    last.op \in Builders
        => Instruction_unpack(LastInstruction.data)
               = Ok(DocumentedInstruction(last.op), 0)

\* C25: every instruction a builder emits lists the authority account as
\* a signer, and built for an authority that signs it is never refused
\* with MissingRequiredSignature.
BuilderListsAuthorityAsSigner ==
    last.op \in Builders
        => /\ LastInstruction.accounts[2].pubkey = last.input.authority
           /\ LastInstruction.accounts[2].is_signer
           /\ last.result # Err("MissingRequiredSignature")

\* C26: after every successful add_entry, on an empty account or not, the
\* account holds the packed form of the entries it held followed by the
\* decoded entry; on an empty account the input bytes written are the
\* packed form of the entry they decode to.
AddBranchesAgree ==
    (last.op = "add_entry" /\ last.result.tag = "Ok")
        => data = Keystore_pack([entries |->
                      Append(Keystore_unpack(last.before).val.entries,
                             Target(last.input))])

\* e is one of the entries the keystore account holds
Stored(e) ==
    LET k == get_keystore(data)
    IN  k.tag = "Ok" /\ \E i \in 1..Len(k.val) : k.val[i] = e

\* C27: when two client add_entry calls for different entries on the same
\* keystore have both returned Ok, however their fetches and submissions
\* were interleaved, the stored keystore contains both entries.
NoLostUpdate ==
    (/\ \A c \in Calls : clients[c].pc = "done" /\ clients[c].result.tag = "Ok"
     /\ clients[1].entry # clients[2].entry)
        => (Stored(clients[1].entry) /\ Stored(clients[2].entry))

\* C28: the account is empty exactly when it decodes to no entries;
\* removing the last remaining entries leaves an empty account, on which
\* remove_entry fails with KeystoreEntryNotFound and add_entry writes its
\* input as it is.
EmptySlotIffEmptyRegistry ==
    /\ (data = <<>>)
           <=> (/\ Keystore_unpack(data).tag = "Ok"
                /\ Keystore_unpack(data).val.entries = <<>>)
    /\ (/\ last.op = "remove_entry"
        /\ last.result.tag = "Ok"
        /\ Without(Keystore_unpack(last.before).val.entries,
                   Target(last.input)) = <<>>)
           => (/\ data = <<>>
               /\ remove_entry(data, last.input, TRUE).result
                      = Err("KeystoreEntryNotFound")
               /\ add_entry(data, last.input, TRUE).data = last.input)

\* The only entry of the account is removed and the account is empty.
EmptySlotIffEmptyRegistryWitness ==
    /\ last.op = "remove_entry"
    /\ last.result.tag = "Ok"
    /\ last.before # <<>>
    /\ Keystore_unpack(last.before).val.entries = <<Target(last.input)>>
    /\ data = <<>>

\* C29: KeyringProgramInstruction::unpack, and with it process, returns
\* an instruction or an error on every instruction data, the empty data
\* included, and unpacks the packed form of each instruction to it.
InstructionDecodingTotal ==
    /\ ProgramRequest
           => (/\ Instruction_unpack(LastInstruction.data).tag
                      \in {"Ok", "Err"}
               /\ last.result.tag \in {"Ok", "Err"})
    /\ \A i \in 1..Len(InstructionNames) :
           Instruction_unpack(Instruction_pack(InstructionNames[i]))
               = Ok(InstructionNames[i], 0)

====
